---- MODULE Spec2Model ----
(***************************************************************************)
(* Model of train_model_old.py: a single-process, top-to-bottom pipeline   *)
(* that loads labelled images, one-hot encodes the labels, splits them,    *)
(* assembles MobileNetV2 + head, trains the head, evaluates, and writes    *)
(* the model file and the plot file.                                       *)
(*                                                                         *)
(* Library calls are modelled by their documented effect.  A library call  *)
(* that can raise (unreadable image, memory, disk, ...) has a failing      *)
(* outcome; the script has no try/except, so any raise ends the process.   *)
(***************************************************************************)
EXTENDS Integers, Sequences, FiniteSets, TLC

VARIABLES
    pc,          \* position of the interpreter in the script
    log,         \* pipeline stages entered so far, in order (history)
    error,       \* the uncaught exception that ended the run, or "none"
    failed_at,   \* pc at which the exception was raised, or "none"
    argv,        \* command line
    disk,        \* image files under the dataset directory: count per sub-directory
    args,        \* vars(ap.parse_args())
    imagePaths,  \* list(paths.list_images(...))
    i,           \* loop index of the loading loop (paths processed so far)
    data,        \* list / array of image tensors
    labels,      \* list of label strings, then their encoding
    lb_classes,  \* lb.classes_ of the fitted LabelBinarizer
    split,       \* [X_train, X_test, y_train, y_test] once split, else <<>>
    prev_split,  \* split of the previous execution on the same dataset, else <<>>
    run,         \* number of this execution of the script on the dataset
    np_random,   \* state of numpy's global RandomState, -1 until first used
    keras,       \* what the installed Keras does with a step count of 0
    augmenter,   \* train_transformations constructed
    trainable,   \* layer -> trainable flag (empty before the model exists)
    weights,     \* layer -> number of gradient updates applied to the layer
    opt,         \* the optimizer: [lr, decay, iterations] or <<>>
    fit_args,    \* the arguments model.fit was called with, or <<>>
    epoch,       \* epochs finished by fit
    step,        \* batches done in the current epoch
    H,           \* H.history: metric name -> list of per-epoch values
    predIdxs,    \* predictions on the test split
    report,      \* class names listed by the printed classification report
    model_file,  \* path of the model file written, or "none"
    plot_file    \* path of the plot file written, or "none"

vars == << pc, log, error, failed_at, argv, disk, args, imagePaths, i, data,
           labels, lb_classes, split, prev_split, run, np_random, keras,
           augmenter,
           trainable, weights, opt, fit_args, epoch, step, H, predIdxs,
           report, model_file, plot_file >>

(***************************************************************************)
(* Bounds of the model.                                                    *)
(***************************************************************************)
MaxMask == 21       \* images under <dataset>/mask
MaxNoMask == 21     \* images under <dataset>/no-mask
MaxOther == 1       \* images under a third class directory <dataset>/other

(***************************************************************************)
(* Program constants.                                                      *)
(***************************************************************************)
EPOCHS == 20
BS == 32
RANDOM_STATE == 42
TEST_PERCENT == 20          \* test_size=0.20
TARGET_SIZE == 224
LR_DENOM == 1000            \* learning_rate = 1e-3 = 1 / LR_DENOM

DEFAULT_PLOT == "plots/plot.png"
DEFAULT_MODEL == "face_mask_detector.model"

(***************************************************************************)
(* Small helpers on sequences and numbers.                                 *)
(***************************************************************************)
Max(a, b) == IF a >= b THEN a ELSE b

Range(s) == { s[k] : k \in 1..Len(s) }

RECURSIVE Gcd(_, _)
Gcd(a, b) == IF b = 0 THEN a ELSE Gcd(b, a % b)

\* ceil(p * n / 100)
CeilPercent(p, n) == (p * n + 99) \div 100

(***************************************************************************)
(* The file system under the dataset directory.  A path is the sequence    *)
(* of its characters' groups: names and separators.                        *)
(***************************************************************************)
SEP == "/"
DATASET_DIR == "dataset"
ClassDirs == << "mask", "no-mask", "other" >>

Disks == { << a, b, c >> : a \in 0..MaxMask, b \in 0..MaxNoMask, c \in 0..MaxOther }

\* the name of file number n of a directory
FileName(n) == ToString(n) \o ".png"

\* os.path.join(rootDir, filename) for file number n of sub-directory d
PathOf(d, n) == << DATASET_DIR, SEP, ClassDirs[d], SEP, FileName(n) >>

RECURSIVE FilesOf(_, _, _)
FilesOf(d, n, upto) ==
    IF n > upto THEN <<>> ELSE << PathOf(d, n) >> \o FilesOf(d, n + 1, upto)

\* paths.list_images walks the tree and yields every image file once; a root
\* that does not exist yields nothing (os.walk ignores the error)
list_images(root, dsk) ==
    IF root # DATASET_DIR THEN <<>>
    ELSE FilesOf(1, 1, dsk[1]) \o FilesOf(2, 1, dsk[2]) \o FilesOf(3, 1, dsk[3])

\* str.split(os.path.sep): the names between the separators
RECURSIVE SplitPath(_, _, _)
SplitPath(p, k, cur) ==
    IF k > Len(p) THEN << cur >>
    ELSE IF p[k] = SEP THEN << cur >> \o SplitPath(p, k + 1, "")
         ELSE SplitPath(p, k + 1, cur \o p[k])

\* variant: the last component (the file name) taken for the label
LabelOfPath_filename(p) ==
    LET parts == SplitPath(p, 1, "")
    IN  parts[Len(parts)]

\* label = imagePath.split(os.path.sep)[-2]
LabelOfPath(p) ==
    LET parts == SplitPath(p, 1, "")
    IN  parts[Len(parts) - 1]

\* the byte stored in an image file (every pixel alike)
PixelOf(p) ==
    LET dn == CHOOSE dn \in (1..3) \X (1..(Max(MaxMask, Max(MaxNoMask, MaxOther)))) :
                  PathOf(dn[1], dn[2]) = p
    IN  (dn[1] * 37 + dn[2] * 11) % 256

\* load_img(target_size=(224,224)), img_to_array, preprocess_input:
\* a 224x224 tensor whose values are x / 127.5 - 1, kept here in 1/255 units
LoadImage(p) == << TARGET_SIZE, 2 * PixelOf(p) - 255 >>

(***************************************************************************)
(* Label encoding: sklearn LabelBinarizer and keras to_categorical.        *)
(***************************************************************************)
\* position of a class name in sorted order (np.unique sorts the names)
NameRank(name) ==
    CASE name = "dataset" -> 0
      [] name = "mask" -> 1
      [] name = "no-mask" -> 2
      [] name = "other" -> 3

RECURSIVE SortNames(_)
SortNames(S) ==
    IF S = {} THEN <<>>
    ELSE LET m == CHOOSE x \in S : \A y \in S : NameRank(x) <= NameRank(y)
         IN  << m >> \o SortNames(S \ {m})

\* lb.fit: classes_ = sorted distinct labels
FitClasses(ls) == SortNames(Range(ls))

IndexOf(seq, x) == CHOOSE k \in 1..Len(seq) : seq[k] = x

\* variant: the 0/1 column of a two-class problem inverted
BinarizeOne_inverted(classes, l) ==
    IF Len(classes) = 1 THEN << 0 >>
    ELSE IF Len(classes) = 2 THEN << 2 - IndexOf(classes, l) >>
    ELSE [ c \in 1..Len(classes) |-> IF classes[c] = l THEN 1 ELSE 0 ]

\* lb.transform for one label: a single 0/1 column for at most two classes,
\* one indicator column per class for three or more
BinarizeOne(classes, l) ==
    IF Len(classes) = 1 THEN << 0 >>
    ELSE IF Len(classes) = 2 THEN << IndexOf(classes, l) - 1 >>
    ELSE [ c \in 1..Len(classes) |-> IF classes[c] = l THEN 1 ELSE 0 ]

\* an ndarray: its number of axes and its rows along axis 0
Array(ndim, rows) == [ ndim |-> ndim, a |-> rows ]

\* lb.fit_transform(labels): fit, then transform every label; shape (n, 1) or (n, k)
fit_transform(ls) ==
    Array(2, [ k \in 1..Len(ls) |-> BinarizeOne(FitClasses(ls), ls[k]) ])

OneHot(v, n) == [ c \in 1..n |-> IF c = v + 1 THEN 1 ELSE 0 ]

RECURSIVE SeqMax(_)
SeqMax(s) == IF Len(s) = 0 THEN 0 ELSE Max(s[1], SeqMax(Tail(s)))

\* to_categorical(y): num_classes = max(y) + 1 over the whole array; a trailing
\* axis of length 1 is dropped first, any other shape gets a new last axis:
\* (n, 1) -> (n, num_classes), (n, k) -> (n, k, num_classes)
to_categorical(y) ==
    LET num_classes == 1 + SeqMax([ k \in 1..Len(y.a) |-> SeqMax(y.a[k]) ])
        squeezed    == \A k \in 1..Len(y.a) : Len(y.a[k]) = 1
    IN  IF squeezed
        THEN Array(2, [ k \in 1..Len(y.a) |-> OneHot(y.a[k][1], num_classes) ])
        ELSE Array(3, [ k \in 1..Len(y.a) |->
                          [ c \in 1..Len(y.a[k]) |-> OneHot(y.a[k][c], num_classes) ] ])

\* np.argmax of a vector: first index of the maximum (0-based)
ArgMax(v) == (CHOOSE c \in 1..Len(v) :
                 /\ \A d \in 1..Len(v) : v[d] <= v[c]
                 /\ \A d \in 1..(c - 1) : v[d] < v[c]) - 1

\* y.argmax(axis=1): one index per sample for a matrix, one index per position
\* of the last axis for a rank-3 array
ArgMaxAxis1(y) ==
    IF y.ndim = 2 THEN Array(1, [ k \in 1..Len(y.a) |-> ArgMax(y.a[k]) ])
    ELSE Array(2, [ k \in 1..Len(y.a) |->
                      [ j \in 1..Len(y.a[k][1]) |->
                          ArgMax([ c \in 1..Len(y.a[k]) |-> y.a[k][c][j] ]) ] ])

\* lb.classes_[idx], for an array of indices: a name per index
ClassesAt(classes, idx) ==
    IF idx.ndim = 1 THEN Array(1, [ k \in 1..Len(idx.a) |-> classes[idx.a[k] + 1] ])
    ELSE Array(2, [ k \in 1..Len(idx.a) |->
                      [ j \in 1..Len(idx.a[k]) |-> classes[idx.a[k][j] + 1] ] ])

(***************************************************************************)
(* Random numbers.  numpy's generator is a deterministic function of its   *)
(* state; a linear congruential generator stands for it.                   *)
(***************************************************************************)
\* np.random.RandomState(seed)
RandomState(seed) == seed % 65537

NextRandom(r) == (75 * r + 74) % 65537

Swap(s, a, b) == [ s EXCEPT ![a] = s[b], ![b] = s[a] ]

\* rng.permutation(s): Fisher-Yates; gives << permuted s, state after >>
RECURSIVE Permutation(_, _, _)
Permutation(r, s, n) ==
    IF n <= 1 THEN << s, r >>
    ELSE Permutation(NextRandom(r), Swap(s, n, (NextRandom(r) % n) + 1), n - 1)

(***************************************************************************)
(* train_test_split(test_size=0.20, stratify=labels, random_state=42):     *)
(* sklearn's StratifiedShuffleSplit.                                       *)
(***************************************************************************)
RECURSIVE SeqSum(_)
SeqSum(s) == IF Len(s) = 0 THEN 0 ELSE s[1] + SeqSum(Tail(s))

Take(s, n) == SubSeq(s, 1, n)

\* the distinct rows of y in the order np.unique gives them (rows compared
\* position by position: the row with the earlier 0 comes first)
RECURSIVE RowLess(_, _, _)
RowLess(a, b, k) ==
    IF k > Len(a) THEN FALSE
    ELSE IF a[k] # b[k] THEN a[k] < b[k]
    ELSE RowLess(a, b, k + 1)

RECURSIVE SortRows(_)
SortRows(S) ==
    IF S = {} THEN <<>>
    ELSE LET m == CHOOSE x \in S : \A y \in S \ {x} : RowLess(x, y, 1)
         IN  << m >> \o SortRows(S \ {m})

\* indices (1-based) of the samples whose row is cls, ascending
IndicesOf(y, cls) == SelectSeq([ k \in 1..Len(y) |-> k ], LAMBDA k : y[k] = cls)

\* _approximate_mode: n_draws split over the classes in proportion to counts;
\* the floors first, then one more for the largest remainders, ties drawn by rng.
\* order is a random order of the classes; the first `need` of it, by remainder,
\* get one more.
RECURSIVE TopByRemainder(_, _, _)
TopByRemainder(order, rem, need) ==
    IF need = 0 \/ Len(order) = 0 THEN {}
    ELSE LET best == CHOOSE k \in 1..Len(order) :
                        /\ \A j \in 1..Len(order) : rem[order[j]] <= rem[order[k]]
                        /\ \A j \in 1..(k - 1) : rem[order[j]] < rem[order[k]]
             rest == SubSeq(order, 1, best - 1) \o SubSeq(order, best + 1, Len(order))
         IN  { order[best] } \cup TopByRemainder(rest, rem, need - 1)

ApproximateMode(counts, n_draws, r) ==
    LET total   == SeqSum(counts)
        floored == [ c \in 1..Len(counts) |-> (counts[c] * n_draws) \div total ]
        rem     == [ c \in 1..Len(counts) |-> (counts[c] * n_draws) % total ]
        need    == n_draws - SeqSum(floored)
        pr      == Permutation(r, [ c \in 1..Len(counts) |-> c ], Len(counts))
        more    == TopByRemainder(pr[1], rem, need)
    IN  IF need = 0 THEN << floored, r >>
        ELSE << [ c \in 1..Len(counts) |-> floored[c] + (IF c \in more THEN 1 ELSE 0) ],
                pr[2] >>

\* per class: permute its indices, the first n_i go to train, the next t_i to test
RECURSIVE DrawClasses(_, _, _, _, _)
DrawClasses(cidx, n_i, t_i, c, r) ==
    IF c > Len(cidx) THEN << <<>>, <<>>, r >>
    ELSE LET pr   == Permutation(r, cidx[c], Len(cidx[c]))
             rest == DrawClasses(cidx, n_i, t_i, c + 1, pr[2])
         IN  << Take(pr[1], n_i[c]) \o rest[1],
                SubSeq(pr[1], n_i[c] + 1, n_i[c] + t_i[c]) \o rest[2],
                rest[3] >>

\* per class, the indices of its samples
ClassIndices(y, classes) == [ c \in 1..Len(classes) |-> IndicesOf(y, classes[c]) ]

ClassCounts(cidx) == [ c \in 1..Len(cidx) |-> Len(cidx[c]) ]

\* the test allocation, drawn from what the train allocation a1 left
AllocateTest(counts, a1, n_test) ==
    << a1[1],
       ApproximateMode([ c \in 1..Len(counts) |-> counts[c] - a1[1][c] ], n_test, a1[2]) >>

\* << n_i, << t_i, generator state >> >>
Allocate(counts, n_train, n_test, r) ==
    AllocateTest(counts, ApproximateMode(counts, n_train, r), n_test)

\* the final shuffles of the train and of the test indices
ShuffleTest(train, test, r) == << train, Permutation(r, test, Len(test))[1] >>

ShuffleDrawn(train, test, r) ==
    ShuffleTest(Permutation(r, train, Len(train))[1], test,
                Permutation(r, train, Len(train))[2])

DrawAllocated(cidx, al) == DrawClasses(cidx, al[1], al[2][1], 1, al[2][2])

ShuffleAll(drawn) == ShuffleDrawn(drawn[1], drawn[2], drawn[3])

\* the train and test index lists, for a generator in state r
SplitIndices(y, r) ==
    ShuffleAll(DrawAllocated(
        ClassIndices(y, SortRows(Range(y))),
        Allocate(ClassCounts(ClassIndices(y, SortRows(Range(y)))),
                 Len(y) - CeilPercent(TEST_PERCENT, Len(y)),
                 CeilPercent(TEST_PERCENT, Len(y)), r)))

\* what the split raises, or "none": labels of rank 3 are refused, a class
\* needs two members, and each side needs at least one sample per class
SplitError(ndim, y) ==
    LET n       == Len(y)
        n_test  == CeilPercent(TEST_PERCENT, n)
        n_train == n - n_test
        classes == Range(y)
    IN  IF ndim > 2 THEN "ValueError"
        ELSE IF \E c \in classes : Cardinality({ k \in 1..n : y[k] = c }) < 2
             THEN "ValueError"
        ELSE IF n_train < Cardinality(classes) \/ n_test < Cardinality(classes)
             THEN "ValueError"
        ELSE "none"

\* the generator the split draws from: its own RandomState(seed) for an integer
\* random_state, numpy's global one
\* for random_state=None, written here as a negative number
\* variant: random_state not passed on, the global generator used
SplitRng_global(random_state, global) == global

SplitRng(random_state, global) ==
    IF random_state < 0 THEN global ELSE RandomState(random_state)

train_test_split(X, y, r) ==
    LET idx == SplitIndices(y, r)
    IN  [ X_train |-> [ k \in 1..Len(idx[1]) |-> X[idx[1][k]] ],
          X_test  |-> [ k \in 1..Len(idx[2]) |-> X[idx[2][k]] ],
          y_train |-> [ k \in 1..Len(idx[1]) |-> y[idx[1][k]] ],
          y_test  |-> [ k \in 1..Len(idx[2]) |-> y[idx[2][k]] ] ]

(***************************************************************************)
(* The model: MobileNetV2 without its top, and the head built on it.       *)
(***************************************************************************)
NumBackboneLayers == 3      \* layers of base_model kept by the model

HeadLayers == << "average_pooling2d", "flatten", "dense", "dropout", "dense_1" >>

\* base_model.layers
BackboneLayers == 1..NumBackboneLayers

\* the layers added by lines 99-103, numbered after the backbone's
HeadLayerIds == (NumBackboneLayers + 1)..(NumBackboneLayers + Len(HeadLayers))

\* layers that hold weights: every backbone layer, and the Dense layers of the head
HasWeights(l) ==
    \/ l \in BackboneLayers
    \/ /\ l \in HeadLayerIds
       /\ HeadLayers[l - NumBackboneLayers] \in { "dense", "dense_1" }

NoLayers == [ l \in {} |-> 0 ]

\* variant: the loop stops one layer short
FrozenByLoop_all_but_last == 1..(NumBackboneLayers - 1)

\* the layers frozen by the loop of lines 110-111
FrozenByLoop == BackboneLayers

\* one gradient update: only trainable layers that hold weights move
TrainStep(w, tr) ==
    [ l \in DOMAIN w |-> IF tr[l] /\ HasWeights(l) THEN w[l] + 1 ELSE w[l] ]

(***************************************************************************)
(* The optimizer.  Rates are exact fractions << numerator, denominator >>. *)
(***************************************************************************)
Frac(n, d) == << n \div Gcd(n, d), d \div Gcd(n, d) >>

FracLeq(x, y) == x[1] * y[2] <= y[1] * x[2]

FracSub(x, y) == Frac(x[1] * y[2] - y[1] * x[2], x[2] * y[2])

\* learning_rate = 1e-3
learning_rate == Frac(1, LR_DENOM)

\* decay = learning_rate / EPOCHS
Decay == Frac(learning_rate[1], learning_rate[2] * EPOCHS)

\* variant: a rate falling by lr * decay per update
DecayedLr_linear(lr, decay, t) == Frac(lr[1] * (decay[2] - decay[1] * t), lr[2] * decay[2])

\* Adam(lr, decay): the rate used by update number t (t updates done before):
\* lr / (1 + decay * t)
DecayedLr(lr, decay, t) == Frac(lr[1] * decay[2], lr[2] * (decay[2] + decay[1] * t))

(***************************************************************************)
(* model.fit's step arithmetic.                                            *)
(***************************************************************************)
\* steps_per_epoch=len(X_train) // BS, validation_steps=len(X_test) // BS
StepsArg(n, bs) == n \div bs

\* len() of the iterator flow() returns: batches needed to see every sample
BatchesOf(n, bs) == (n + bs - 1) \div bs

KerasZeroModes == { "unset", "no_batches" }

\* batches run per epoch: the step count given; a count of 0 is taken as not
\* given by a Keras of mode "unset", and runs no batch in mode "no_batches"
EffectiveSteps(given, n, mode) ==
    IF given = 0 /\ mode = "unset" THEN BatchesOf(n, BS) ELSE given

MetricKeys == { "loss", "accuracy", "val_loss", "val_accuracy" }

NoHistory == [ k \in {} |-> 0 ]

\* the history after one more epoch recorded the metrics of `keys`
Record(h, keys) ==
    [ k \in (DOMAIN h) \cup keys |->
        IF k \in DOMAIN h THEN (IF k \in keys THEN h[k] + 1 ELSE h[k]) ELSE 1 ]

(***************************************************************************)
(* Stages of the pipeline.                                                 *)
(***************************************************************************)
StageOf(p) ==
    CASE p = "parse" -> "args"
      [] p \in { "list_images", "load_loop", "to_array" } -> "load"
      [] p \in { "binarize", "to_categorical" } -> "encode"
      [] p = "split" -> "split"
      [] p = "augmenter" -> "augment"
      [] p \in { "backbone", "head", "freeze", "compile" } -> "assemble"
      [] p \in { "fit", "fit_epoch" } -> "fit"
      [] p \in { "predict", "report" } -> "evaluate"
      [] p = "save" -> "save_model"
      [] p = "plot" -> "save_plot"
      [] OTHER -> "none"

\* control passes to statement `next`
Goto(next) ==
    /\ pc' = next
    /\ log' = IF StageOf(next) \in { "none", StageOf(pc) } THEN log
              ELSE Append(log, StageOf(next))
    /\ UNCHANGED << error, failed_at >>

\* an exception is raised at the current statement; nothing catches it
Raise(e) ==
    /\ pc' = "failed"
    /\ error' = e
    /\ failed_at' = pc
    /\ UNCHANGED log

envVars   == << argv, disk, prev_split, run >>
loadVars  == << imagePaths, i, data, labels, lb_classes >>
modelVars == << augmenter, trainable, weights, opt >>
fitVars   == << keras, fit_args, epoch, step, H >>
outVars   == << predIdxs, report, model_file, plot_file >>

(***************************************************************************)
(* Initial state: the process has been started on some command line, with  *)
(* some dataset on disk.                                                   *)
(***************************************************************************)
NoArg == "none"

Argvs == { [ dataset |-> NoArg,       plot |-> NoArg,     model |-> NoArg ],
           [ dataset |-> DATASET_DIR, plot |-> NoArg,     model |-> NoArg ],
           [ dataset |-> DATASET_DIR, plot |-> "out.png", model |-> "out.h5" ] }

Fresh ==
    /\ pc = "parse"
    /\ log = << "args" >>
    /\ error = "none"
    /\ failed_at = "none"
    /\ args = <<>>
    /\ imagePaths = <<>>
    /\ i = 0
    /\ data = <<>>
    /\ labels = <<>>
    /\ lb_classes = <<>>
    /\ split = <<>>
    /\ np_random = -1
    /\ keras = "unknown"
    /\ augmenter = FALSE
    /\ trainable = NoLayers
    /\ weights = NoLayers
    /\ opt = <<>>
    /\ fit_args = <<>>
    /\ epoch = 0
    /\ step = 0
    /\ H = NoHistory
    /\ predIdxs = <<>>
    /\ report = <<>>
    /\ model_file = "none"
    /\ plot_file = "none"

Init ==
    /\ argv \in Argvs
    /\ disk \in Disks
    /\ prev_split = <<>>
    /\ run = 1
    /\ Fresh

(***************************************************************************)
(* Lines 29-37: argument parsing.                                          *)
(***************************************************************************)
ParseArgs ==
    /\ pc = "parse"
    /\ IF argv.dataset = NoArg
       THEN /\ Raise("SystemExit")
            /\ UNCHANGED args
       ELSE /\ args' = [ dataset |-> argv.dataset,
                         plot    |-> IF argv.plot = NoArg THEN DEFAULT_PLOT ELSE argv.plot,
                         model   |-> IF argv.model = NoArg THEN DEFAULT_MODEL ELSE argv.model ]
            /\ Goto("list_images")
    /\ UNCHANGED << envVars, loadVars, split, np_random, modelVars, fitVars, outVars >>

(***************************************************************************)
(* Lines 48-68: the dataset loader.                                        *)
(***************************************************************************)
\* lines 48-50
ListImages ==
    /\ pc = "list_images"
    /\ imagePaths' = list_images(args["dataset"], disk)
    /\ data' = <<>>
    /\ labels' = <<>>
    /\ i' = 0
    /\ Goto("load_loop")
    /\ UNCHANGED << envVars, args, lb_classes, split, np_random, modelVars, fitVars, outVars >>

\* the label and the tensor appended by one iteration, lines 55-64
LoadedPair(imagePath) == << LoadImage(imagePath), LabelOfPath(imagePath) >>

\* lines 53-64: one iteration of the loop
LoadOne ==
    /\ pc = "load_loop"
    /\ i < Len(imagePaths)
    /\ \/ /\ data' = Append(data, LoadedPair(imagePaths[i + 1])[1])
          /\ labels' = Append(labels, LoadedPair(imagePaths[i + 1])[2])
          /\ i' = i + 1
          /\ Goto("load_loop")
       \/ /\ Raise("UnidentifiedImageError")
          /\ UNCHANGED << data, labels, i >>
    /\ UNCHANGED << envVars, args, imagePaths, lb_classes, split, np_random, modelVars,
                    fitVars, outVars >>

\* the loop is exhausted
LoadDone ==
    /\ pc = "load_loop"
    /\ i = Len(imagePaths)
    /\ Goto("to_array")
    /\ UNCHANGED << envVars, args, loadVars, split, np_random, modelVars, fitVars, outVars >>

\* lines 67-68: np.array(data, dtype="float32"), np.array(labels)
ToArray ==
    /\ pc = "to_array"
    /\ \/ /\ data' = Array(4, data)
          /\ labels' = Array(1, labels)
          /\ Goto("binarize")
       \/ /\ Len(data) > 0
          /\ Raise("MemoryError")
          /\ UNCHANGED << data, labels >>
    /\ UNCHANGED << envVars, args, imagePaths, i, lb_classes, split, np_random, modelVars,
                    fitVars, outVars >>

(***************************************************************************)
(* Lines 71-73: the label encoder.                                         *)
(***************************************************************************)
\* variant: an encoder that accepts an empty y
Binarize_accepts_empty ==
    /\ pc = "binarize"
    /\ lb_classes' = FitClasses(labels.a)
    /\ labels' = fit_transform(labels.a)
    /\ Goto("to_categorical")
    /\ UNCHANGED << envVars, args, imagePaths, i, data, split, np_random, modelVars,
                    fitVars, outVars >>

\* lines 71-72: LabelBinarizer().fit_transform refuses an empty y
Binarize ==
    /\ pc = "binarize"
    /\ IF Len(labels.a) = 0
       THEN /\ Raise("ValueError")
            /\ UNCHANGED << labels, lb_classes >>
       ELSE /\ lb_classes' = FitClasses(labels.a)
            /\ labels' = fit_transform(labels.a)
            /\ Goto("to_categorical")
    /\ UNCHANGED << envVars, args, imagePaths, i, data, split, np_random, modelVars,
                    fitVars, outVars >>

\* line 73
ToCategorical ==
    /\ pc = "to_categorical"
    /\ labels' = to_categorical(labels)
    /\ Goto("split")
    /\ UNCHANGED << envVars, args, imagePaths, i, data, lb_classes, split, np_random,
                    modelVars, fitVars, outVars >>

(***************************************************************************)
(* Lines 78-79: the splitter.                                              *)
(***************************************************************************)
SeedChoices == { 0, 1 }

\* the state of the global generator when it is drawn from: seeded from the
\* operating system at first use
Entropy(g) == IF g = -1 THEN SeedChoices ELSE { g }

Split ==
    /\ pc = "split"
    /\ IF SplitError(labels.ndim, labels.a) # "none"
       THEN /\ Raise(SplitError(labels.ndim, labels.a))
            /\ UNCHANGED split
       ELSE /\ \E g \in Entropy(np_random) :
                 LET s == train_test_split(data.a, labels.a, SplitRng(RANDOM_STATE, g))
                 IN  split' = << s.X_train, s.X_test, s.y_train, s.y_test >>
            /\ Goto("augmenter")
    /\ UNCHANGED << envVars, args, loadVars, np_random, modelVars, fitVars, outVars >>

X_train == split[1]
X_test  == split[2]
y_train == split[3]
y_test  == split[4]

(***************************************************************************)
(* Lines 82-90: the augmenter.                                             *)
(***************************************************************************)
Augmenter ==
    /\ pc = "augmenter"
    /\ augmenter' = TRUE
    /\ Goto("backbone")
    /\ UNCHANGED << envVars, args, loadVars, split, np_random, trainable, weights, opt,
                    fitVars, outVars >>

(***************************************************************************)
(* Lines 94-118: the model assembler.                                      *)
(***************************************************************************)
\* lines 94-95: MobileNetV2(weights="imagenet", include_top=False, ...)
Backbone ==
    /\ pc = "backbone"
    /\ \/ /\ trainable' = [ l \in BackboneLayers |-> TRUE ]
          /\ weights' = [ l \in BackboneLayers |-> 0 ]
          /\ Goto("head")
       \/ /\ Raise("OSError")
          /\ UNCHANGED << trainable, weights >>
    /\ UNCHANGED << envVars, args, loadVars, split, np_random, augmenter, opt, fitVars,
                    outVars >>

\* lines 98-107: the head's layers, and the Model over both
BuildHead ==
    /\ pc = "head"
    /\ trainable' = [ l \in BackboneLayers \cup HeadLayerIds |->
                        IF l \in BackboneLayers THEN trainable[l] ELSE TRUE ]
    /\ weights' = [ l \in BackboneLayers \cup HeadLayerIds |->
                      IF l \in BackboneLayers THEN weights[l] ELSE 0 ]
    /\ Goto("freeze")
    /\ UNCHANGED << envVars, args, loadVars, split, np_random, augmenter, opt, fitVars,
                    outVars >>

\* lines 110-111: for layer in base_model.layers: layer.trainable = False
Freeze ==
    /\ pc = "freeze"
    /\ trainable' = [ l \in DOMAIN trainable |->
                        IF l \in FrozenByLoop THEN FALSE ELSE trainable[l] ]
    /\ Goto("compile")
    /\ UNCHANGED << envVars, args, loadVars, split, np_random, augmenter, weights, opt,
                    fitVars, outVars >>

\* lines 116-118: Adam(lr, decay) and model.compile
Compile ==
    /\ pc = "compile"
    /\ opt' = [ lr |-> learning_rate, decay |-> Decay, iterations |-> 0,
                rate |-> learning_rate ]
    /\ Goto("fit")
    /\ UNCHANGED << envVars, args, loadVars, split, np_random, augmenter, trainable,
                    weights, fitVars, outVars >>

(***************************************************************************)
(* Lines 122-128: the trainer, model.fit.                                  *)
(***************************************************************************)
\* Dense(2, activation="softmax"): one output per class
HeadOutput == << "softmax", "softmax" >>

\* the keyword arguments of the call
FitCall(n_train, n_test) ==
    [ batch_size       |-> BS,
      steps_per_epoch  |-> StepsArg(n_train, BS),
      validation_steps |-> StepsArg(n_test, BS),
      epochs           |-> EPOCHS ]

\* the call itself: arguments evaluated, fit entered; labels whose width is
\* not the model's output width may be refused
FitBegin ==
    /\ pc = "fit"
    /\ \/ /\ fit_args' = FitCall(Len(X_train), Len(X_test))
          /\ keras' \in IF 0 \in { FitCall(Len(X_train), Len(X_test)).steps_per_epoch,
                                   FitCall(Len(X_train), Len(X_test)).validation_steps }
                        THEN KerasZeroModes ELSE { "any" }
          /\ epoch' = 0
          /\ step' = 0
          /\ Goto("fit_epoch")
       \/ /\ Len(y_train[1]) # Len(HeadOutput)
          /\ Raise("ValueError")
          /\ UNCHANGED << fit_args, keras, epoch, step >>
    /\ UNCHANGED << envVars, args, loadVars, split, np_random, modelVars, H, outVars >>

TrainSteps == EffectiveSteps(fit_args.steps_per_epoch, Len(X_train), keras)
ValSteps   == EffectiveSteps(fit_args.validation_steps, Len(X_test), keras)

\* one batch: drawn through the global generator (the first batch of an epoch
\* shuffles the index array), then one optimizer update
FitStep ==
    /\ pc = "fit_epoch"
    /\ epoch < fit_args.epochs
    /\ step < TrainSteps
    /\ \/ /\ \E g \in Entropy(np_random) :
                np_random' = IF step = 0 THEN NextRandom(g) ELSE g
          /\ weights' = TrainStep(weights, trainable)
          /\ opt' = [ opt EXCEPT !.rate = DecayedLr(opt.lr, opt.decay, opt.iterations),
                                 !.iterations = opt.iterations + 1 ]
          /\ step' = step + 1
          /\ Goto("fit_epoch")
       \/ /\ Raise("ResourceExhaustedError")
          /\ UNCHANGED << np_random, weights, opt, step >>
    /\ UNCHANGED << envVars, args, loadVars, split, augmenter, trainable, keras, fit_args,
                    epoch, H, outVars >>

\* the metrics an epoch records: the training ones if a batch ran, the
\* validation ones if a validation batch ran
EpochKeys(train_steps, val_steps) ==
    (IF train_steps > 0 THEN { "loss", "accuracy" } ELSE {})
        \cup (IF train_steps > 0 /\ val_steps > 0 THEN { "val_loss", "val_accuracy" } ELSE {})

\* end of an epoch: an epoch that ran no batch has no logs, which fit refuses
FitEpochEnd ==
    /\ pc = "fit_epoch"
    /\ epoch < fit_args.epochs
    /\ step = TrainSteps
    /\ IF TrainSteps = 0
       THEN /\ Raise("ValueError")
            /\ UNCHANGED << H, epoch, step >>
       ELSE /\ H' = Record(H, EpochKeys(TrainSteps, ValSteps))
            /\ epoch' = epoch + 1
            /\ step' = 0
            /\ Goto("fit_epoch")
    /\ UNCHANGED << envVars, args, loadVars, split, np_random, modelVars, keras, fit_args,
                    outVars >>

FitReturn ==
    /\ pc = "fit_epoch"
    /\ epoch = fit_args.epochs
    /\ Goto("predict")
    /\ UNCHANGED << envVars, args, loadVars, split, np_random, modelVars, fitVars, outVars >>

(***************************************************************************)
(* Lines 132-140: the evaluator.                                           *)
(***************************************************************************)
\* y_test.argmax(axis=1)
TrueIdxs == ArgMaxAxis1(Array(2, y_test)).a

\* outcomes of np.argmax(model.predict(X_test), axis=1): one of the two outputs
\* for every sample, or the right answers
Predictions ==
    { [ k \in 1..Len(X_test) |-> 0 ], [ k \in 1..Len(X_test) |-> 1 ] }
        \cup (IF \A k \in 1..Len(TrueIdxs) : TrueIdxs[k] \in { 0, 1 }
              THEN { TrueIdxs } ELSE {})

\* variant: the prediction wrapped in a handler that goes on after an error
Predict_except ==
    /\ pc = "predict"
    /\ \/ /\ predIdxs' \in Predictions
          /\ Goto("report")
       \/ /\ predIdxs' = [ k \in 1..Len(X_test) |-> 0 ]
          /\ pc' = "report"
          /\ error' = "ResourceExhaustedError"
          /\ failed_at' = pc
          /\ UNCHANGED log
    /\ UNCHANGED << envVars, args, loadVars, split, np_random, modelVars, fitVars,
                    report, model_file, plot_file >>

\* lines 132-136
Predict ==
    /\ pc = "predict"
    /\ \/ /\ predIdxs' \in Predictions
          /\ Goto("report")
       \/ /\ Raise("ResourceExhaustedError")
          /\ UNCHANGED predIdxs
    /\ UNCHANGED << envVars, args, loadVars, split, np_random, modelVars, fitVars,
                    report, model_file, plot_file >>

\* classification_report(y_true, y_pred, target_names): the labels are those
\* present in y_true or y_pred, and must be as many as the names
ReportNames(y_true, y_pred, target_names) ==
    IF Cardinality(Range(y_true) \cup Range(y_pred)) # Len(target_names)
    THEN << "ValueError" >>
    ELSE target_names

\* lines 139-140
Report ==
    /\ pc = "report"
    /\ IF ReportNames(TrueIdxs, predIdxs, lb_classes) = << "ValueError" >>
       THEN /\ Raise("ValueError")
            /\ UNCHANGED report
       ELSE /\ report' = ReportNames(TrueIdxs, predIdxs, lb_classes)
            /\ Goto("save")
    /\ UNCHANGED << envVars, args, loadVars, split, np_random, modelVars, fitVars,
                    predIdxs, model_file, plot_file >>

(***************************************************************************)
(* Lines 144-156: the persister.                                           *)
(***************************************************************************)
\* variant: the script ends after the model is saved
Save_skips_plot ==
    /\ pc = "save"
    /\ \/ /\ model_file' = args["model"]
          /\ Goto("done")
       \/ /\ Raise("OSError")
          /\ UNCHANGED model_file
    /\ UNCHANGED << envVars, args, loadVars, split, np_random, modelVars, fitVars,
                    predIdxs, report, plot_file >>

\* line 144: model.save(args["model"], save_format="h5")
Save ==
    /\ pc = "save"
    /\ \/ /\ model_file' = args["model"]
          /\ Goto("plot")
       \/ /\ Raise("OSError")
          /\ UNCHANGED model_file
    /\ UNCHANGED << envVars, args, loadVars, split, np_random, modelVars, fitVars,
                    predIdxs, report, plot_file >>

\* lines 147-152 read four lists of the history, each N = EPOCHS long
PlotError(h) ==
    IF \E k \in MetricKeys : k \notin DOMAIN h THEN "KeyError"
    ELSE IF \E k \in MetricKeys : h[k] # EPOCHS THEN "ValueError"
    ELSE "none"

\* lines 147-156
Plot ==
    /\ pc = "plot"
    /\ \/ /\ PlotError(H) = "none"
          /\ plot_file' = args["plot"]
          /\ Goto("done")
       \/ /\ PlotError(H) = "none"
          /\ Raise("FileNotFoundError")
          /\ UNCHANGED plot_file
       \/ /\ PlotError(H) # "none"
          /\ Raise(PlotError(H))
          /\ UNCHANGED plot_file
    /\ UNCHANGED << envVars, args, loadVars, split, np_random, modelVars, fitVars,
                    predIdxs, report, model_file >>

(***************************************************************************)
(* The script is executed again on the same command line and dataset: a    *)
(* new process, with nothing kept of the first but what is on disk.        *)
(***************************************************************************)
Rerun ==
    /\ run = 1
    /\ pc = "augmenter"
    /\ run' = 2
    /\ prev_split' = split
    /\ UNCHANGED << argv, disk >>
    /\ pc' = "parse"
    /\ log' = << "args" >>
    /\ error' = "none"
    /\ failed_at' = "none"
    /\ args' = <<>>
    /\ imagePaths' = <<>>
    /\ i' = 0
    /\ data' = <<>>
    /\ labels' = <<>>
    /\ lb_classes' = <<>>
    /\ split' = <<>>
    /\ np_random' = -1
    /\ UNCHANGED << modelVars, fitVars, outVars >>

Next ==
    \/ ParseArgs
    \/ ListImages
    \/ LoadOne
    \/ LoadDone
    \/ ToArray
    \/ Binarize
    \/ ToCategorical
    \/ Split
    \/ Augmenter
    \/ Backbone
    \/ BuildHead
    \/ Freeze
    \/ Compile
    \/ FitBegin
    \/ FitStep
    \/ FitEpochEnd
    \/ FitReturn
    \/ Predict
    \/ Report
    \/ Save
    \/ Plot

Spec == Init /\ [][Next]_vars

\* two executions, each followed up to its split
NextRerun ==
    \/ ParseArgs
    \/ ListImages
    \/ LoadOne
    \/ LoadDone
    \/ ToArray
    \/ Binarize
    \/ ToCategorical
    \/ Split
    \/ Rerun

SpecRerun == Init /\ [][NextRerun]_vars

(***************************************************************************)
(* Properties.                                                             *)
(***************************************************************************)
StageOrder == << "args", "load", "encode", "split", "augment", "assemble", "fit",
                 "evaluate", "save_model", "save_plot" >>

IsPrefix(s, t) == Len(s) <= Len(t) /\ SubSeq(t, 1, Len(s)) = s

Reached(stage) == \E k \in 1..Len(log) : log[k] = stage

\* failures of the machine the script runs on, as opposed to those its own
\* inputs and calls determine
EnvErrors == { "UnidentifiedImageError", "MemoryError", "OSError",
               "ResourceExhaustedError", "FileNotFoundError" }

ToyDisk == << 10, 10, 0 >>
EmptyDisk == << 0, 0, 0 >>

\* C1: the stages are entered in the fixed order args, load, encode, split,
\* augment, assemble, fit, evaluate, save model, save plot: the stages entered
\* so far are always a prefix of that order (so none is entered twice or out
\* of turn), the statement being executed belongs to the last stage entered,
\* and a run that completes has entered all ten.
C1_StagesOnceInOrder ==
    /\ IsPrefix(log, StageOrder)
    /\ pc \notin { "done", "failed" } => log[Len(log)] = StageOf(pc)
    /\ pc = "failed" => log[Len(log)] = StageOf(failed_at)
    /\ pc = "done" => log = StageOrder

C1_Witness == pc = "done" /\ log = StageOrder /\ plot_file # "none"

\* C2: on the dataset of 10 "mask" and 10 "no-mask" images, a run that is
\* given its dataset and meets no failure of the machine ends completed, with
\* the model file at the --model path, the plot file at the --plot path and a
\* report listing exactly the two class names.
C2_ToyDatasetRunCompletes ==
    (disk = ToyDisk /\ argv.dataset = DATASET_DIR /\ pc \in { "done", "failed" })
        => \/ error \in EnvErrors
           \/ /\ pc = "done"
              /\ model_file = args["model"]
              /\ plot_file = args["plot"]
              /\ report = << "mask", "no-mask" >>

\* C3 as stated: with no image file under the dataset directory the run gets
\* no further than the loading stage: it is in the argument or loading stage
\* before the label array is built, or has failed there; empty arrays never
\* reach the label encoder.
C3_EmptyDatasetFailsInLoader ==
    disk = EmptyDisk =>
        /\ pc \notin { "binarize", "to_categorical" }
        /\ pc = "failed" => StageOf(failed_at) \in { "args", "load" }

\* C3 as amended: with no image file under the dataset directory, enumeration
\* and the loading loop raise nothing; empty image and label arrays are built
\* and handed to the label encoder, whose fit_transform raises ValueError; no
\* stage after label encoding is entered.
C3_EmptyDatasetFailsInEncoder ==
    disk = EmptyDisk =>
        /\ IsPrefix(log, << "args", "load", "encode" >>)
        /\ pc \notin { "to_categorical", "done" }
        /\ pc = "binarize" => data = Array(4, <<>>) /\ labels = Array(1, <<>>)
        /\ pc = "failed" =>
              \/ failed_at = "parse" /\ error = "SystemExit"
              \/ failed_at = "binarize" /\ error = "ValueError"

C3_Witness == disk = EmptyDisk /\ pc = "failed" /\ failed_at = "binarize"

\* the label strings of the samples, from the directory tree
RawLabels == [ k \in 1..Len(imagePaths) |-> LabelOfPath(imagePaths[k]) ]

\* lb.classes_[labels.argmax(axis=1)]
Decoded == ClassesAt(lb_classes, ArgMaxAxis1(labels))

IsOneHot(row) ==
    /\ \A c \in 1..Len(row) : row[c] \in { 0, 1 }
    /\ Cardinality({ c \in 1..Len(row) : row[c] = 1 }) = 1

\* C4 as stated: for every dataset, once the labels are encoded, indexing
\* lb.classes_ with the argmax of a sample's encoded label gives back the
\* sample's label string.
C4_RoundTripAnyClasses ==
    pc = "split" => Decoded.ndim = 1 /\ Decoded.a = RawLabels

\* C4 as amended: for a dataset with one or two class names the encoding
\* round-trips, every encoded label is a one-hot vector, and two samples have
\* the same vector exactly when they have the same class name.
C4_RoundTripUpToTwoClasses ==
    (pc = "split" /\ Len(lb_classes) <= 2) =>
        /\ Decoded.ndim = 1 /\ Decoded.a = RawLabels
        /\ labels.ndim = 2
        /\ \A k \in 1..Len(labels.a) : IsOneHot(labels.a[k])
        /\ \A j, k \in 1..Len(labels.a) :
              (labels.a[j] = labels.a[k]) <=> (RawLabels[j] = RawLabels[k])

C4_Witness ==
    /\ pc = "split"
    /\ lb_classes = << "mask", "no-mask" >>
    /\ labels.a[1] = << 1, 0 >>
    /\ labels.a[Len(labels.a)] = << 0, 1 >>

\* C5: fit is called with steps_per_epoch = floor(T / BS) and
\* validation_steps = floor(V / BS), and no train or test size makes fit
\* itself fail.
C5_FloorStepsNeverFail ==
    /\ Reached("fit") /\ pc # "fit" /\ failed_at # "fit" =>
          /\ fit_args.steps_per_epoch * BS <= Len(X_train)
          /\ Len(X_train) < (fit_args.steps_per_epoch + 1) * BS
          /\ fit_args.validation_steps * BS <= Len(X_test)
          /\ Len(X_test) < (fit_args.validation_steps + 1) * BS
    /\ (pc = "failed" /\ failed_at = "fit_epoch") => error \in EnvErrors

\* C6: from the compile on, and through fit to the end of the run, every
\* backbone layer is non-trainable and has received no update (its weights are
\* the pretrained ones); the updates went to the head's Dense layers only.
C6_BackboneFrozen ==
    /\ (pc = "compile" \/ Reached("fit")) =>
          \A l \in BackboneLayers :
              l \in DOMAIN trainable /\ ~trainable[l] /\ weights[l] = 0
    /\ Reached("fit") =>
          \A l \in HeadLayerIds :
              weights[l] = IF HasWeights(l) THEN opt.iterations ELSE 0

C6_Witness ==
    /\ pc = "done"
    /\ opt.iterations >= EPOCHS
    /\ \A l \in BackboneLayers : weights[l] = 0
    /\ \E l \in HeadLayerIds : weights[l] >= EPOCHS

\* C7: a second execution on the same command line and dataset gives the
\* same X_train, X_test, y_train and y_test as the first.
C7_SplitDeterministic ==
    (run = 2 /\ Len(split) = 4) => split = prev_split

C7_Witness ==
    /\ run = 2
    /\ Len(split) = 4
    /\ Len(X_train) >= 8
    /\ Len(X_test) >= 2

\* C8: an exception ends the run where it is raised: an error is recorded
\* only in the failed state, the last stage entered is the one that failed, no
\* step follows; a failure in fit or in the evaluation leaves neither file
\* written, a failure in the model save leaves neither, and a failure in the
\* plot leaves the model file written and no plot file.
C8_FailureState ==
    /\ error # "none" <=> pc = "failed"
    /\ pc = "failed" =>
          /\ log[Len(log)] = StageOf(failed_at)
          /\ StageOf(failed_at) \in { "fit", "evaluate", "save_model" } =>
                model_file = "none" /\ plot_file = "none"
          /\ StageOf(failed_at) = "save_plot" =>
                model_file = args["model"] /\ plot_file = "none"
    /\ plot_file # "none" => model_file # "none"

C8_FailureTerminates == [] C8_FailureState /\ [][pc # "failed"]_vars

C8_Witness ==
    /\ pc = "failed"
    /\ failed_at = "plot"
    /\ error = "FileNotFoundError"
    /\ model_file = args["model"]

\* the name of the directory that holds the file, from the directory tree
DirOfFile(p) ==
    ClassDirs[CHOOSE d \in 1..Len(ClassDirs) :
                 \E n \in 1..Max(MaxMask, Max(MaxNoMask, MaxOther)) : PathOf(d, n) = p]

\* C9: during the loading loop the image list and the label list are both as
\* long as the number of paths processed, and the label just appended is the
\* name of the directory holding that image file; at loop exit both are as long
\* as the list of paths, and every label is its file's directory name.
C9_ParallelArrays ==
    /\ (pc = "load_loop" \/ (pc = "failed" /\ failed_at = "load_loop")) =>
          /\ Len(data) = i /\ Len(labels) = i /\ i <= Len(imagePaths)
          /\ i > 0 => labels[i] = DirOfFile(imagePaths[i])
    /\ pc = "to_array" =>
          /\ i = Len(imagePaths)
          /\ Len(data) = Len(imagePaths)
          /\ Len(labels) = Len(imagePaths)
          /\ \A k \in 1..Len(imagePaths) : labels[k] = DirOfFile(imagePaths[k])

C9_Witness ==
    /\ pc = "to_array"
    /\ Len(labels) >= 3
    /\ labels[1] = "mask"
    /\ labels[Len(labels)] = "no-mask"

\* t times the fraction x
FracTimes(t, x) == Frac(t * x[1], x[2])

\* C10 as stated: the rate falls linearly: after every update the rate used
\* is the initial rate less a fixed decrement per update done before.
C10_LinearDecay ==
    (pc = "fit_epoch" /\ opt.iterations >= 1) =>
        FracSub(opt.lr, opt.rate)
            = FracTimes(opt.iterations - 1,
                        FracSub(opt.lr, DecayedLr(opt.lr, opt.decay, 1)))

\* C10 as amended: the rate decays by inverse time: the update made after t
\* earlier updates uses lr / (1 + decay * t), with lr = 1e-3 and
\* decay = lr / EPOCHS; the rate never increases.
C10_InverseTimeRate ==
    (Reached("fit") /\ pc # "fit" /\ failed_at # "fit") =>
        LET t   == Max(opt.iterations - 1, 0)
            num == learning_rate[1] * (learning_rate[2] * EPOCHS)
            den == learning_rate[2] * (learning_rate[2] * EPOCHS + learning_rate[1] * t)
            g   == Gcd(num, den)
        IN  opt.rate[1] * (den \div g) = (num \div g) * opt.rate[2]

C10_RateNeverIncreases ==
    (pc = "fit_epoch" /\ pc' = "fit_epoch") => FracLeq(opt'.rate, opt.rate)

C10_InverseTimeDecay == [] C10_InverseTimeRate /\ [][C10_RateNeverIncreases]_vars

C10_Witness ==
    /\ pc = "fit_epoch"
    /\ opt.iterations >= 3
    /\ opt.rate # opt.lr
    /\ FracLeq(opt.rate, opt.lr)

====
